---- MODULE Spec2Model ----
(***************************************************************************)
(* State machine of the operator dashboard's real-time synchronisation     *)
(* engine: the React state of web_ui/frontend/src/App.jsx and of           *)
(* web_ui/frontend/src/components/Dashboard.jsx (documents, expandedRow,   *)
(* error, loading, wsConnected), the closure variables of their mount      *)
(* effect (ws, reconnectInterval), the sockets those closures created, and *)
(* the HTTP requests in flight.                                            *)
(*                                                                         *)
(* A JavaScript object is a function from its own keys to values: a key    *)
(* that is not in DOMAIN is an absent property (reads as undefined).       *)
(***************************************************************************)
EXTENDS Integers, Sequences, FiniteSets, TLC

VARIABLES
    component,          \* which root component this instance is: "App" or "Dashboard"
    mounted,            \* FALSE once the component is unmounted (React drops its updates)
    documents,          \* useState([])    : the Document Store, in display order
    expandedRow,        \* useState(null)  : NullRow or [id, history]
    error,              \* useState(null)  : Null or the message shown
    loading,            \* useState(true)
    wsConnected,        \* useState(false)
    run,                \* number of times the mount effect has run (its closures)
    sockets,            \* the WebSocket objects not yet closed: [run, state, cur]
    reconnectInterval,  \* per effect run, the closure variable: "null", "active", "cleared"
    snapshotReqs,       \* GET /documents requests in flight
    historyReqs,        \* GET /history/<id> requests in flight, per document id
    dispatchReqs,       \* POST /<action>/<id> requests in flight
    oauthStatus,        \* useState({connected_count, mailboxes, ingestor_service_status})
    oauthReqs,          \* GET /oauth-status requests in flight
    oauthInterval,      \* per effect run, the 30 s interval: "active" or "cleared"
    checkIntervals,     \* the 2 s intervals of handleOAuthAction still running
    escaped,            \* TRUE once an exception has left a handler uncaught
    inputs,             \* how many inputs (frames, clicks, timer ticks) have arrived
    lastOp              \* the handler that ran last, and the case it met

vars == <<component, mounted, documents, expandedRow, error, loading, wsConnected,
          run, sockets, reconnectInterval, snapshotReqs, historyReqs, dispatchReqs,
          oauthStatus, oauthReqs, oauthInterval, checkIntervals, escaped, inputs, lastOp>>

-----------------------------------------------------------------------------
(* Bounds of the model *)

\* Inputs of one behaviour: frames on the push channel, clicks of the operator
\* and firings of a reconnect interval. Responses and socket events are bounded
\* by the requests and sockets the inputs create.
MaxInputs == 3

-----------------------------------------------------------------------------
(* Values *)

Null == "null"
Undefined == "undefined"
NaN == -1                      \* new Date(undefined).getTime(); real dates are 1, 2, ...

DocIds == {"d1", "d2"}
Times == {1, 2}
Actions == {"re-extract", "re-classify", "re-route"}

Has(o, k) == k \in DOMAIN o
Get(o, k) == IF Has(o, k) THEN o[k] ELSE Undefined

\* { ...a, ...b }
Spread(a, b) == [k \in (DOMAIN a) \cup (DOMAIN b) |-> IF k \in DOMAIN b THEN b[k] ELSE a[k]]

\* The pipeline stage a backend event of time t reports.
StatusAt(t) == IF t = 1 THEN "Extracted" ELSE "Routed"

HistoryEvent(id, t) == [document_id |-> id, status |-> StatusAt(t), timestamp |-> t]

\* Push payloads: a history event, with or without the Document-level last_updated,
\* and one without a document_id.
Events ==
    {HistoryEvent(id, t) : id \in DocIds, t \in Times}
    \cup {Spread(HistoryEvent(id, t), [last_updated |-> t]) : id \in DocIds, t \in Times}
    \cup {[status |-> StatusAt(1), timestamp |-> 1, last_updated |-> 1]}

\* A frame on the wire: JSON text of an event, or text that is not JSON.
Frames == {[json |-> TRUE, data |-> e] : e \in Events} \cup {[json |-> FALSE]}

\* JSON.parse(event.data)
JsonParse(frame) ==
    IF frame.json THEN [threw |-> FALSE, value |-> frame.data]
    ELSE [threw |-> TRUE]

\* Rows of GET /documents.
SnapshotRow(id) ==
    [document_id |-> id, status |-> "Ingested", last_updated |-> IF id = "d1" THEN 1 ELSE 2]

\* response.data: a JSON array, or something else (an object, an empty body).
Array(items) == [array |-> TRUE, items |-> items]
NotArray == [array |-> FALSE]

\* Array.isArray(data) ? data : []
ArrayOrEmpty(data) == IF data.array THEN data.items ELSE <<>>

\* Bodies of a 200 response of GET /documents.
Snapshots ==
    {NotArray, Array(<<>>), Array(<<SnapshotRow("d1")>>),
     Array(<<SnapshotRow("d1"), SnapshotRow("d2")>>),
     Array(<<SnapshotRow("d2"), SnapshotRow("d1")>>)}

\* Bodies of a 200 response of GET /history/<id>.
Histories(id) == {NotArray, Array(<<>>), Array(<<HistoryEvent(id, 1)>>)}

\* expandedRow === null
NullRow == [null |-> TRUE]
IsNull(row) == Has(row, "null")

\* The oauthStatus the client falls back to, with the given service status.
NoStatus(service) ==
    [connected_count |-> 0, mailboxes |-> <<>>, ingestor_service_status |-> service]

\* Bodies of a 200 response of GET /oauth-status: a status object, or an empty body.
Statuses ==
    {[empty |-> TRUE],
     [connected_count |-> 0, mailboxes |-> <<>>, ingestor_service_status |-> "connected"],
     [connected_count |-> 1, mailboxes |-> <<"m1">>, ingestor_service_status |-> "connected"]}

\* How a request fails: an HTTP status, or no response at all.
Failures == {"404", "500", "ERR_NETWORK", "422"}

-----------------------------------------------------------------------------
(* The Document Store *)

Ids(docs) == {Get(docs[i], "document_id") : i \in 1..Len(docs)}

\* Mutant of FindIndex: the callback compares doc.id, a key no document has, so
\* that only an event without document_id finds a match.
FindIndexWrongKey(docs, id) ==
    IF id = Undefined /\ docs # <<>> THEN 1 ELSE 0

\* prevDocs.findIndex(doc => doc.document_id === id); 0 stands for -1
FindIndex(docs, id) ==
    LET hits == {i \in 1..Len(docs) : Get(docs[i], "document_id") = id}
    IN  IF hits = {} THEN 0 ELSE CHOOSE i \in hits : \A j \in hits : i <= j

\* new Date(doc.last_updated).getTime()
DateOf(doc) == IF Has(doc, "last_updated") THEN doc["last_updated"] ELSE NaN

\* (a, b) => new Date(b.last_updated) - new Date(a.last_updated); a NaN result
\* is read by Array.prototype.sort as +0.
Compare(a, b) ==
    IF DateOf(a) = NaN \/ DateOf(b) = NaN THEN 0 ELSE DateOf(b) - DateOf(a)

\* Insert d into the sorted sequence s after every element it does not precede.
RECURSIVE InsertSorted(_, _)
InsertSorted(s, d) ==
    IF s = <<>> THEN <<d>>
    ELSE IF Compare(s[Len(s)], d) <= 0 THEN Append(s, d)
    ELSE Append(InsertSorted(SubSeq(s, 1, Len(s) - 1), d), s[Len(s)])

RECURSIVE StableSort(_)
StableSort(s) ==
    IF s = <<>> THEN <<>>
    ELSE InsertSorted(StableSort(SubSeq(s, 1, Len(s) - 1)), s[Len(s)])

\* Whether the comparator is a consistent comparator for the elements of s.
Consistent(s) ==
    \A i, j, k \in 1..Len(s) :
        (Compare(s[i], s[j]) = 0 /\ Compare(s[j], s[k]) = 0) => Compare(s[i], s[k]) = 0

Orderings(s) ==
    {[i \in 1..Len(s) |-> s[p[i]]] :
        p \in {q \in [1..Len(s) -> 1..Len(s)] : \A i, j \in 1..Len(s) : q[i] = q[j] => i = j}}

\* The results newDocs.sort(comparator) may have: the stable sort, or, when the
\* comparator is not consistent, an implementation-defined order.
SortResults(s) == IF Consistent(s) THEN {StableSort(s)} ELSE Orderings(s)

\* Mutant of MergeEvent: the event replaces the document instead of being spread
\* over it.
MergeReplaces(doc, ev) ==
    Spread(ev, [override_in_progress |-> FALSE, override_type |-> Null])

\* Mutant of MergeEvent: the override flags are not cleared.
MergeKeepsOverride(doc, ev) == Spread(doc, ev)

\* The merge of an event into the document it names.
MergeEvent(doc, ev) ==
    Spread(Spread(doc, ev), [override_in_progress |-> FALSE, override_type |-> Null])

\* Mutant of Upsert: the event is always prepended.
UpsertAlwaysPrepend(prevDocs, ev) ==
    [isNewDocument |-> TRUE, newDocs |-> <<ev>> \o prevDocs]

\* The body of the setDocuments updater of ws.onmessage, before the sort.
Upsert(prevDocs, ev) ==
    LET docIndex == FindIndex(prevDocs, Get(ev, "document_id"))
    IN  IF docIndex > 0
        THEN [isNewDocument |-> FALSE,
              newDocs |-> [prevDocs EXCEPT ![docIndex] = MergeEvent(prevDocs[docIndex], ev)]]
        ELSE [isNewDocument |-> TRUE, newDocs |-> <<ev>> \o prevDocs]

\* The setExpandedRow updater of ws.onmessage.
AppendHistory(prevExpanded, ev, isNewDocument) ==
    IF isNewDocument
    THEN [id |-> Get(ev, "document_id"), history |-> <<ev>>]
    ELSE IF ~IsNull(prevExpanded) /\ prevExpanded.id = Get(ev, "document_id")
    THEN [prevExpanded EXCEPT !.history = Append(prevExpanded.history, ev)]
    ELSE prevExpanded

\* The optimistic write of handleManualAction.
Optimistic(doc, action) ==
    Spread(doc, [status |-> "Re-" \o action \o "...",
                 override_in_progress |-> TRUE,
                 override_type |-> action])

\* docs.map(d => d.document_id === docId ? {...} : d)
MarkOverride(docs, action, docId) ==
    [i \in 1..Len(docs) |->
        IF Get(docs[i], "document_id") = docId THEN Optimistic(docs[i], action) ELSE docs[i]]

-----------------------------------------------------------------------------
(* Messages of setError *)

ErrBackendDown == "Backend service is not available. Please ensure the web_ui service is running on port 8000."
ErrNoBackend == "Could not connect to the backend."
ErrDetails == "Could not load document details."
ErrWebSocket == "WebSocket connection error."
ErrNetwork == "Network error. Please check your connection."

\* The message of handleManualAction's catch block.
ActionError(action, failure) ==
    IF failure = "404"
    THEN IF action = "re-classify"
         THEN "No extraction data found. Please re-extract the document first."
         ELSE IF action = "re-extract"
         THEN "No original file content found. Cannot re-extract."
         ELSE "Document not found or no data available for this action."
    ELSE IF failure = "500" THEN "Server error during " \o action \o ". Please try again."
    ELSE IF failure = "ERR_NETWORK" THEN ErrNetwork
    ELSE "Failed to start re-" \o action \o " process: " \o failure

-----------------------------------------------------------------------------
(* The mount effect: its closures, sockets and cleanup *)

\* ws.close() on the socket the closure of run r holds in ws.
CloseWs(socks, r) ==
    [i \in 1..Len(socks) |->
        IF socks[i].run = r /\ socks[i].cur
        THEN [socks[i] EXCEPT !.state = IF @ = "CONNECTING" THEN "ABORTING"
                                        ELSE IF @ = "OPEN" THEN "CLOSING" ELSE @]
        ELSE socks[i]]

\* if (reconnectInterval) clearInterval(reconnectInterval): the variable keeps the id.
ClearTimer(ri, r) == [ri EXCEPT ![r] = IF @ = "active" THEN "cleared" ELSE @]

\* connectWebSocket() in the closure of run r: ws = new WebSocket(WS_URL)
Connect(socks, r) ==
    Append([i \in 1..Len(socks) |->
                IF socks[i].run = r THEN [socks[i] EXCEPT !.cur = FALSE] ELSE socks[i]],
           [run |-> r, state |-> "CONNECTING", cur |-> TRUE])

Remove(socks, i) == SubSeq(socks, 1, i - 1) \o SubSeq(socks, i + 1, Len(socks))

\* Whether a render after this handler re-runs the mount effect: Dashboard lists
\* handleRowClick, which is rebuilt whenever expandedRow is a new object, among the
\* effect's dependencies; App's effect has none.
Reruns(fresh) == component = "Dashboard" /\ mounted /\ fresh

\* The end of a handler: the closure variables and sockets it leaves (socks, ri),
\* the requests in flight and loading, and then, when the effect re-runs, the
\* cleanup of the previous run and the body of the new one.
Commit(fresh, socks, ri, load) ==
    IF Reruns(fresh)
    THEN /\ run' = run + 1
         /\ sockets' = Connect(CloseWs(socks, run), run + 1)
         /\ reconnectInterval' = Append(ClearTimer(ri, run), "null")
         /\ snapshotReqs' = snapshotReqs + 1
         /\ loading' = TRUE
         /\ oauthReqs' = oauthReqs + 1
         /\ oauthInterval' = Append(ClearTimer(oauthInterval, run), "active")
    ELSE /\ run' = run
         /\ sockets' = socks
         /\ reconnectInterval' = ri
         /\ snapshotReqs' = snapshotReqs
         /\ loading' = load
         /\ oauthReqs' = oauthReqs
         /\ oauthInterval' = oauthInterval

\* The record of the handler that ran last.
Op(name, note) == [op |-> name, note |-> note]

-----------------------------------------------------------------------------
(* Initial state: the component has mounted and its effect has run once *)

Init ==
    /\ component \in {"App", "Dashboard"}
    /\ mounted = TRUE
    /\ documents = <<>>
    /\ expandedRow = NullRow
    /\ error = Null
    /\ loading = TRUE
    /\ wsConnected = FALSE
    /\ run = 1
    /\ sockets = Connect(<<>>, 1)
    /\ reconnectInterval = <<"null">>
    /\ snapshotReqs = 1
    /\ historyReqs = [id \in DocIds |-> 0]
    /\ dispatchReqs = {}
    /\ oauthStatus = NoStatus("disconnected")
    /\ oauthReqs = 1
    /\ oauthInterval = <<"active">>
    /\ checkIntervals = 0
    /\ escaped = FALSE
    /\ inputs = 0
    /\ lastOp = Op("mount", "")

-----------------------------------------------------------------------------
(* fetchInitialDocuments *)

\* The response of GET /documents arrives with body data.
SnapshotOk(data) ==
    /\ snapshotReqs > 0
    /\ snapshotReqs' = snapshotReqs - 1
    /\ IF mounted
       THEN /\ documents' = ArrayOrEmpty(data)
            /\ error' = Null
            /\ loading' = FALSE
       ELSE UNCHANGED <<documents, error, loading>>
    /\ lastOp' = Op("snapshotOk", IF mounted THEN "applied" ELSE "")
    /\ UNCHANGED <<component, mounted, expandedRow, wsConnected, run, sockets,
                   reconnectInterval, historyReqs, dispatchReqs, escaped, inputs,
                   oauthStatus, oauthReqs, oauthInterval, checkIntervals>>

\* GET /documents fails.
SnapshotFail(failure) ==
    /\ snapshotReqs > 0
    /\ snapshotReqs' = snapshotReqs - 1
    /\ IF mounted
       THEN /\ error' = IF failure = "ERR_NETWORK" THEN ErrBackendDown ELSE ErrNoBackend
            /\ documents' = <<>>
            /\ loading' = FALSE
       ELSE UNCHANGED <<documents, error, loading>>
    /\ lastOp' = Op("snapshotFail", IF mounted THEN "applied" ELSE "")
    /\ UNCHANGED <<component, mounted, expandedRow, wsConnected, run, sockets,
                   reconnectInterval, historyReqs, dispatchReqs, escaped, inputs,
                   oauthStatus, oauthReqs, oauthInterval, checkIntervals>>

-----------------------------------------------------------------------------
(* handleRowClick *)

\* The rows the render shows and the operator can click.
Rendered(docId) == mounted /\ ~loading /\ docId \in Ids(documents)

\* The record of a click on the row of docId.
RowOp(docId) ==
    [op |-> "rowClick",
     note |-> IF ~IsNull(expandedRow) /\ expandedRow.id = docId THEN "collapse" ELSE "expand",
     id |-> docId]

\* The operator clicks the row of docId: collapse it, or ask for its history.
RowClick(docId) ==
    /\ Rendered(docId)
    /\ inputs < MaxInputs
    /\ inputs' = inputs + 1
    /\ IF ~IsNull(expandedRow) /\ expandedRow.id = docId
       THEN /\ expandedRow' = NullRow
            /\ historyReqs' = historyReqs
            /\ Commit(TRUE, sockets, reconnectInterval, loading)
       ELSE /\ expandedRow' = expandedRow
            /\ historyReqs' = [historyReqs EXCEPT ![docId] = @ + 1]
            /\ Commit(FALSE, sockets, reconnectInterval, loading)
    /\ lastOp' = RowOp(docId)
    /\ UNCHANGED <<component, mounted, documents, error, wsConnected, dispatchReqs, escaped,
                   oauthStatus, checkIntervals>>

\* The record of a history response for docId: latest when it answers the click
\* that came directly before it, so that no request was issued after its own.
HistoryOp(name, note, docId) ==
    [op |-> name, note |-> note,
     latest |-> lastOp.op = "rowClick" /\ lastOp.note = "expand" /\ lastOp.id = docId]

\* The response of GET /history/<docId> arrives with body data.
HistoryOk(docId, data) ==
    /\ historyReqs[docId] > 0
    /\ historyReqs' = [historyReqs EXCEPT ![docId] = @ - 1]
    /\ IF mounted
       THEN expandedRow' = [id |-> docId, history |-> ArrayOrEmpty(data)]
       ELSE expandedRow' = expandedRow
    /\ Commit(TRUE, sockets, reconnectInterval, loading)
    /\ lastOp' = HistoryOp("historyOk", "", docId)
    /\ UNCHANGED <<component, mounted, documents, error, wsConnected, dispatchReqs,
                   escaped, inputs,
                   oauthStatus, checkIntervals>>

\* Mutant of HistoryFail: the catch block reports every failure, 404 included.
HistoryFailReports(docId, failure) ==
    /\ historyReqs[docId] > 0
    /\ historyReqs' = [historyReqs EXCEPT ![docId] = @ - 1]
    /\ IF mounted
       THEN /\ expandedRow' = [id |-> docId, history |-> <<>>]
            /\ error' = ErrDetails
       ELSE UNCHANGED <<expandedRow, error>>
    /\ Commit(TRUE, sockets, reconnectInterval, loading)
    /\ lastOp' = HistoryOp("historyFail", failure, docId)
    /\ UNCHANGED <<component, mounted, documents, wsConnected, dispatchReqs, escaped, inputs,
                   oauthStatus, checkIntervals>>

\* GET /history/<docId> fails.
HistoryFail(docId, failure) ==
    /\ historyReqs[docId] > 0
    /\ historyReqs' = [historyReqs EXCEPT ![docId] = @ - 1]
    /\ IF mounted
       THEN /\ expandedRow' = [id |-> docId, history |-> <<>>]
            /\ error' = IF failure \notin {"404", "ERR_NETWORK"} THEN ErrDetails ELSE error
       ELSE UNCHANGED <<expandedRow, error>>
    /\ Commit(TRUE, sockets, reconnectInterval, loading)
    /\ lastOp' = HistoryOp("historyFail", failure, docId)
    /\ UNCHANGED <<component, mounted, documents, wsConnected, dispatchReqs, escaped, inputs,
                   oauthStatus, checkIntervals>>

-----------------------------------------------------------------------------
(* handleManualAction *)

\* The action buttons the expanded row of docId shows.
Buttons == IF component = "App" THEN {"re-extract", "re-classify"} ELSE Actions

\* The operator presses an action button of the expanded row: the request is sent.
Dispatch(action, docId) ==
    /\ Rendered(docId)
    /\ ~IsNull(expandedRow) /\ expandedRow.id = docId
    /\ action \in Buttons
    /\ inputs < MaxInputs
    /\ inputs' = inputs + 1
    /\ <<action, docId>> \notin dispatchReqs
    /\ dispatchReqs' = dispatchReqs \cup {<<action, docId>>}
    /\ lastOp' = Op("dispatch", "")
    /\ UNCHANGED <<component, mounted, documents, expandedRow, error, loading, wsConnected,
                   run, sockets, reconnectInterval, snapshotReqs, historyReqs, escaped,
                   oauthStatus, oauthReqs, oauthInterval, checkIntervals>>

\* The backend accepts the request.
DispatchAccept(action, docId) ==
    /\ <<action, docId>> \in dispatchReqs
    /\ dispatchReqs' = dispatchReqs \ {<<action, docId>>}
    /\ IF mounted
       THEN /\ documents' = MarkOverride(documents, action, docId)
            /\ error' = Null
       ELSE UNCHANGED <<documents, error>>
    /\ lastOp' = Op("accept", IF docId \in Ids(documents) THEN "in store" ELSE "not in store")
    /\ UNCHANGED <<component, mounted, expandedRow, loading, wsConnected, run, sockets,
                   reconnectInterval, snapshotReqs, historyReqs, escaped, inputs,
                   oauthStatus, oauthReqs, oauthInterval, checkIntervals>>

\* Mutant of DispatchReject: the optimistic write is made whatever the outcome
\* of the request.
DispatchRejectMarks(action, docId, failure) ==
    /\ <<action, docId>> \in dispatchReqs
    /\ dispatchReqs' = dispatchReqs \ {<<action, docId>>}
    /\ documents' = IF mounted THEN MarkOverride(documents, action, docId) ELSE documents
    /\ error' = IF mounted THEN ActionError(action, failure) ELSE error
    /\ lastOp' = Op("reject", failure)
    /\ UNCHANGED <<component, mounted, expandedRow, loading, wsConnected, run,
                   sockets, reconnectInterval, snapshotReqs, historyReqs, escaped, inputs,
                   oauthStatus, oauthReqs, oauthInterval, checkIntervals>>

\* The request fails.
DispatchReject(action, docId, failure) ==
    /\ <<action, docId>> \in dispatchReqs
    /\ dispatchReqs' = dispatchReqs \ {<<action, docId>>}
    /\ error' = IF mounted THEN ActionError(action, failure) ELSE error
    /\ lastOp' = Op("reject", failure)
    /\ UNCHANGED <<component, mounted, documents, expandedRow, loading, wsConnected, run,
                   sockets, reconnectInterval, snapshotReqs, historyReqs, escaped, inputs,
                   oauthStatus, oauthReqs, oauthInterval, checkIntervals>>

-----------------------------------------------------------------------------
(* connectWebSocket: the handlers of a socket *)

\* ws.onopen of socket i
OnOpen(i) ==
    /\ i \in 1..Len(sockets)
    /\ sockets[i].state = "CONNECTING"
    /\ sockets' = [sockets EXCEPT ![i].state = "OPEN"]
    /\ IF mounted
       THEN wsConnected' = TRUE /\ error' = Null
       ELSE UNCHANGED <<wsConnected, error>>
    /\ reconnectInterval' = [reconnectInterval EXCEPT ![sockets[i].run] = "null"]
    /\ lastOp' = Op("open", "")
    /\ UNCHANGED <<component, mounted, documents, expandedRow, loading, run, snapshotReqs,
                   historyReqs, dispatchReqs, escaped, inputs,
                   oauthStatus, oauthReqs, oauthInterval, checkIntervals>>

\* Mutant of OnClose: the interval is started by the drop of an open connection
\* only, not by a connection attempt that fails.
OnCloseOfOpenOnly(i, failed) ==
    /\ i \in 1..Len(sockets)
    /\ sockets[i].state \in (IF failed THEN {"CONNECTING", "OPEN", "ABORTING"}
                                      ELSE {"OPEN", "CLOSING"})
    /\ sockets' = Remove(sockets, i)
    /\ IF mounted
       THEN /\ wsConnected' = FALSE
            /\ error' = IF failed THEN ErrWebSocket ELSE error
       ELSE UNCHANGED <<wsConnected, error>>
    /\ reconnectInterval' =
           [reconnectInterval EXCEPT ![sockets[i].run] =
               IF @ = "null" /\ sockets[i].state \in {"OPEN", "CLOSING"} THEN "active" ELSE @]
    /\ lastOp' = Op("close", sockets[i].state)
    /\ UNCHANGED <<component, mounted, documents, expandedRow, loading, run, snapshotReqs,
                   historyReqs, dispatchReqs, escaped, inputs,
                   oauthStatus, oauthReqs, oauthInterval, checkIntervals>>

\* Socket i closes: the connection attempt fails, the open connection drops, or the
\* close() of a cleanup completes. A failure fires error (ws.onerror) and then close
\* (ws.onclose) in one task; a clean close fires close alone.
OnClose(i, failed) ==
    /\ i \in 1..Len(sockets)
    /\ sockets[i].state \in (IF failed THEN {"CONNECTING", "OPEN", "ABORTING"}
                                      ELSE {"OPEN", "CLOSING"})
    /\ sockets' = Remove(sockets, i)
    /\ IF mounted
       THEN /\ wsConnected' = FALSE
            /\ error' = IF failed THEN ErrWebSocket ELSE error
       ELSE UNCHANGED <<wsConnected, error>>
    /\ reconnectInterval' =
           [reconnectInterval EXCEPT ![sockets[i].run] = IF @ = "null" THEN "active" ELSE @]
    /\ lastOp' = Op("close", sockets[i].state)
    /\ UNCHANGED <<component, mounted, documents, expandedRow, loading, run, snapshotReqs,
                   historyReqs, dispatchReqs, escaped, inputs,
                   oauthStatus, oauthReqs, oauthInterval, checkIntervals>>

\* The case a frame meets in ws.onmessage.
MessageCase(frame) ==
    LET parsed == JsonParse(frame)
        docIndex == FindIndex(documents, Get(parsed.value, "document_id"))
    IN  IF parsed.threw THEN "unparsable"
        ELSE IF ~mounted THEN "unmounted"
        ELSE IF docIndex = 0 THEN "unknown id"
        ELSE IF Has(documents[docIndex], "override_in_progress")
                /\ documents[docIndex]["override_in_progress"] THEN "action pending"
        ELSE "known id"

\* The record of a frame handled by ws.onmessage.
MessageOp(frame) == [op |-> "message", note |-> MessageCase(frame), frame |-> frame]

\* Mutant of Caught: JSON.parse is called outside the try block.
CaughtNothing(parsed) == FALSE

\* The catch block of ws.onmessage takes whatever its try block throws.
Caught(parsed) == TRUE

\* ws.onmessage of socket i receives frame.
OnMessage(i, frame) ==
    /\ i \in 1..Len(sockets)
    /\ sockets[i].state = "OPEN"
    /\ inputs < MaxInputs
    /\ inputs' = inputs + 1
    /\ LET parsed == JsonParse(frame)
       IN  IF parsed.threw \/ ~mounted
           THEN \* catch (err) { console.error(...) }; an unmounted component's
                \* updaters are never run
                /\ UNCHANGED <<documents, expandedRow>>
                /\ Commit(FALSE, sockets, reconnectInterval, loading)
           ELSE LET newStatusEvent == parsed.value
                    up == Upsert(documents, newStatusEvent)
                    row == AppendHistory(expandedRow, newStatusEvent, up.isNewDocument)
                IN  /\ documents' \in SortResults(up.newDocs)
                    /\ expandedRow' = row
                    /\ Commit(up.isNewDocument
                                \/ (~IsNull(expandedRow)
                                    /\ expandedRow.id = Get(newStatusEvent, "document_id")),
                              sockets, reconnectInterval, loading)
    /\ escaped' = (escaped \/ (JsonParse(frame).threw /\ ~Caught(JsonParse(frame))))
    /\ lastOp' = MessageOp(frame)
    /\ UNCHANGED <<component, mounted, error, wsConnected, historyReqs, dispatchReqs,
                   oauthStatus, checkIntervals>>

\* The reconnect interval of run r fires: connectWebSocket().
ReconnectTick(r) ==
    /\ r \in 1..run
    /\ reconnectInterval[r] = "active"
    /\ inputs < MaxInputs
    /\ inputs' = inputs + 1
    /\ sockets' = Connect(sockets, r)
    /\ lastOp' = Op("tick", "")
    /\ UNCHANGED <<component, mounted, documents, expandedRow, error, loading, wsConnected,
                   run, reconnectInterval, snapshotReqs, historyReqs, dispatchReqs, escaped,
                   oauthStatus, oauthReqs, oauthInterval, checkIntervals>>

-----------------------------------------------------------------------------
(* fetchOAuthStatus and handleOAuthAction *)

\* The response of GET /oauth-status arrives with body data.
OAuthOk(data) ==
    /\ oauthReqs > 0
    /\ oauthReqs' = oauthReqs - 1
    /\ oauthStatus' = IF ~mounted THEN oauthStatus
                      ELSE IF Has(data, "empty") THEN NoStatus("disconnected")
                      ELSE data
    /\ lastOp' = Op("oauthOk", "")
    /\ UNCHANGED <<component, mounted, documents, expandedRow, error, loading, wsConnected,
                   run, sockets, reconnectInterval, snapshotReqs, historyReqs, dispatchReqs,
                   oauthInterval, checkIntervals, escaped, inputs>>

\* GET /oauth-status fails.
OAuthFail ==
    /\ oauthReqs > 0
    /\ oauthReqs' = oauthReqs - 1
    /\ oauthStatus' = IF mounted THEN NoStatus("error") ELSE oauthStatus
    /\ lastOp' = Op("oauthFail", IF oauthStatus.connected_count > 0 THEN "had accounts" ELSE "")
    /\ UNCHANGED <<component, mounted, documents, expandedRow, error, loading, wsConnected,
                   run, sockets, reconnectInterval, snapshotReqs, historyReqs, dispatchReqs,
                   oauthInterval, checkIntervals, escaped, inputs>>

\* The 30 s interval of effect run r fires: fetchOAuthStatus().
PollTick(r) ==
    /\ r \in 1..run
    /\ oauthInterval[r] = "active"
    /\ inputs < MaxInputs
    /\ inputs' = inputs + 1
    /\ oauthReqs' = oauthReqs + 1
    /\ lastOp' = Op("pollTick", "")
    /\ UNCHANGED <<component, mounted, documents, expandedRow, error, loading, wsConnected,
                   run, sockets, reconnectInterval, snapshotReqs, historyReqs, dispatchReqs,
                   oauthStatus, oauthInterval, checkIntervals, escaped>>

\* The operator presses the mailbox button, which is enabled while the ingestor
\* is connected: a 2 s interval and its 2 min timeout are started.
HandleOAuthAction ==
    /\ mounted /\ ~loading
    /\ oauthStatus.ingestor_service_status = "connected"
    /\ inputs < MaxInputs
    /\ inputs' = inputs + 1
    /\ checkIntervals' = checkIntervals + 1
    /\ lastOp' = Op("oauthAction", "")
    /\ UNCHANGED <<component, mounted, documents, expandedRow, error, loading, wsConnected,
                   run, sockets, reconnectInterval, snapshotReqs, historyReqs, dispatchReqs,
                   oauthStatus, oauthReqs, oauthInterval, escaped>>

\* A 2 s interval fires: fetchOAuthStatus().
BurstTick ==
    /\ checkIntervals > 0
    /\ inputs < MaxInputs
    /\ inputs' = inputs + 1
    /\ oauthReqs' = oauthReqs + 1
    /\ lastOp' = Op("burstTick", "")
    /\ UNCHANGED <<component, mounted, documents, expandedRow, error, loading, wsConnected,
                   run, sockets, reconnectInterval, snapshotReqs, historyReqs, dispatchReqs,
                   oauthStatus, oauthInterval, checkIntervals, escaped>>

\* Mutant of BurstEnd: the timeout fires but clears no interval.
BurstEndClearsNothing ==
    /\ checkIntervals > 0
    /\ checkIntervals' = checkIntervals
    /\ lastOp' = Op("burstEnd", "")
    /\ UNCHANGED <<component, mounted, documents, expandedRow, error, loading, wsConnected,
                   run, sockets, reconnectInterval, snapshotReqs, historyReqs, dispatchReqs,
                   oauthStatus, oauthReqs, oauthInterval, escaped, inputs>>

\* The 2 min timeout of a 2 s interval fires: clearInterval(checkInterval).
BurstEnd ==
    /\ checkIntervals > 0
    /\ checkIntervals' = checkIntervals - 1
    /\ lastOp' = Op("burstEnd", "")
    /\ UNCHANGED <<component, mounted, documents, expandedRow, error, loading, wsConnected,
                   run, sockets, reconnectInterval, snapshotReqs, historyReqs, dispatchReqs,
                   oauthStatus, oauthReqs, oauthInterval, escaped, inputs>>

-----------------------------------------------------------------------------

\* The component is unmounted: the cleanup of the effect's last run.
Unmount ==
    /\ mounted
    /\ mounted' = FALSE
    /\ sockets' = CloseWs(sockets, run)
    /\ reconnectInterval' = ClearTimer(reconnectInterval, run)
    /\ oauthInterval' = ClearTimer(oauthInterval, run)
    /\ lastOp' = Op("unmount", "")
    /\ UNCHANGED <<component, documents, expandedRow, error, loading, wsConnected, run,
                   snapshotReqs, historyReqs, dispatchReqs, escaped, inputs,
                   oauthStatus, oauthReqs, checkIntervals>>

-----------------------------------------------------------------------------

Next ==
    \/ \E data \in Snapshots : SnapshotOk(data)
    \/ \E failure \in Failures : SnapshotFail(failure)
    \/ \E docId \in DocIds : RowClick(docId)
    \/ \E docId \in DocIds : \E data \in Histories(docId) : HistoryOk(docId, data)
    \/ \E docId \in DocIds : \E failure \in Failures : HistoryFail(docId, failure)
    \/ \E action \in Actions : \E docId \in DocIds : Dispatch(action, docId)
    \/ \E action \in Actions : \E docId \in DocIds : DispatchAccept(action, docId)
    \/ \E action \in Actions : \E docId \in DocIds : \E failure \in Failures :
           DispatchReject(action, docId, failure)
    \/ \E i \in 1..Len(sockets) : OnOpen(i)
    \/ \E i \in 1..Len(sockets) : \E failed \in BOOLEAN : OnClose(i, failed)
    \/ \E i \in 1..Len(sockets) : \E frame \in Frames : OnMessage(i, frame)
    \/ \E r \in 1..run : ReconnectTick(r)
    \/ \E data \in Statuses : OAuthOk(data)
    \/ OAuthFail
    \/ \E r \in 1..run : PollTick(r)
    \/ HandleOAuthAction
    \/ BurstTick
    \/ BurstEnd
    \/ Unmount

Spec == Init /\ [][Next]_vars

NextStore ==
    \/ \E data \in Snapshots : SnapshotOk(data)
    \/ \E failure \in Failures : SnapshotFail(failure)
    \/ \E docId \in DocIds : RowClick(docId)
    \/ \E docId \in DocIds : \E data \in Histories(docId) : HistoryOk(docId, data)
    \/ \E docId \in DocIds : \E failure \in Failures : HistoryFail(docId, failure)
    \/ \E action \in Actions : \E docId \in DocIds : Dispatch(action, docId)
    \/ \E action \in Actions : \E docId \in DocIds : DispatchAccept(action, docId)
    \/ \E action \in Actions : \E docId \in DocIds : \E failure \in Failures :
           DispatchReject(action, docId, failure)
    \/ \E i \in 1..Len(sockets) : OnOpen(i)
    \/ \E i \in 1..Len(sockets) : \E frame \in Frames : OnMessage(i, frame)

SpecStore == Init /\ [][NextStore]_vars

NextChannel ==
    \/ \E i \in 1..Len(sockets) : OnOpen(i)
    \/ \E i \in 1..Len(sockets) : \E failed \in BOOLEAN : OnClose(i, failed)
    \/ \E i \in 1..Len(sockets) : \E frame \in Frames : OnMessage(i, frame)
    \/ \E r \in 1..run : ReconnectTick(r)
    \/ Unmount

SpecChannel == Init /\ [][NextChannel]_vars

\* The connection alone: the frames are an event for d1, which re-runs the
\* effect of Dashboard, and an unparsable one.
ReconnectFrames == {[json |-> TRUE, data |-> HistoryEvent("d1", 1)], [json |-> FALSE]}

NextReconnect ==
    \/ \E i \in 1..Len(sockets) : OnOpen(i)
    \/ \E i \in 1..Len(sockets) : \E failed \in BOOLEAN : OnClose(i, failed)
    \/ \E i \in 1..Len(sockets) : \E frame \in ReconnectFrames : OnMessage(i, frame)
    \/ \E r \in 1..run : ReconnectTick(r)
    \/ Unmount

\* The browser fires an interval that is running.
SpecReconnect ==
    Init /\ [][NextReconnect]_vars /\ WF_vars(\E r \in 1..run : ReconnectTick(r))

NextPoller ==
    \/ \E data \in Snapshots : SnapshotOk(data)
    \/ \E failure \in Failures : SnapshotFail(failure)
    \/ \E data \in Statuses : OAuthOk(data)
    \/ OAuthFail
    \/ \E r \in 1..run : PollTick(r)
    \/ HandleOAuthAction
    \/ BurstTick
    \/ BurstEnd
    \/ Unmount

SpecPoller == Init /\ [][NextPoller]_vars

\* The browser fires a timeout that is due.
SpecPollerFair == SpecPoller /\ WF_vars(BurstEnd)

-----------------------------------------------------------------------------
(* Properties *)

\* readOne(id)
DocAt(docs, id) == docs[FindIndex(docs, id)]

OverrideKeys == {"override_in_progress", "override_type"}

\* doc.override_in_progress is true
InProgress(doc) == Has(doc, "override_in_progress") /\ doc["override_in_progress"]

\* a.lastUpdated >= b.lastUpdated, which is false when either is absent
NotOlder(a, b) == DateOf(a) # NaN /\ DateOf(b) # NaN /\ DateOf(a) >= DateOf(b)

\* A frame that parses, delivered to a mounted component on socket i.
Delivered(i, frame) == frame.json /\ mounted /\ OnMessage(i, frame)

\* C1: in every reachable state the Document Store holds at most one Document
\* per document id.
UniqueIds ==
    \A i, j \in 1..Len(documents) :
        i # j => Get(documents[i], "document_id") # Get(documents[j], "document_id")

\* A push event has been merged into one of several Documents.
UniqueIdsWitness ==
    /\ Len(documents) >= 2
    /\ lastOp.op = "message" /\ lastOp.note = "known id"

\* C2: in every reachable state, a Document that appears before another in
\* readAll() has a lastUpdated that is not older.
OrderedByLastUpdated ==
    \A i, j \in 1..Len(documents) : i < j => NotOlder(documents[i], documents[j])

\* C3: for every Store state and every push event, applying the event twice
\* yields the same Document for its id as applying it once.
MergeIdempotent ==
    \A ev \in Events :
        LET id == Get(ev, "document_id")
            once == Upsert(documents, ev).newDocs
            twice == Upsert(once, ev).newDocs
        IN  DocAt(twice, id) = DocAt(once, id)

\* C4: a push event whose id is not in the Store makes readAll() one longer, and
\* one whose id is in the Store leaves its length unchanged.
UpsertLength ==
    [][lastOp'.op = "message" => \A i \in 1..Len(sockets), frame \in {lastOp'.frame} :
          Delivered(i, frame) =>
              Len(documents') = Len(documents)
                  + (IF Get(frame.data, "document_id") \in Ids(documents) THEN 0 ELSE 1)]_vars

\* A push event has created a Document beside another one.
UpsertLengthWitness ==
    /\ Len(documents) >= 2
    /\ lastOp.op = "message" /\ lastOp.note = "unknown id"

\* C5: when a push event is merged into an existing Document, every field the
\* event names takes the event's value, every field it omits (other than the
\* override flags) keeps its value, and every other Document is unchanged.
MergeKeepsFields ==
    [][lastOp'.op = "message" => \A i \in 1..Len(sockets), frame \in {lastOp'.frame} :
          (Delivered(i, frame) /\ Get(frame.data, "document_id") \in Ids(documents)) =>
              LET ev == frame.data
                  id == Get(ev, "document_id")
                  old == DocAt(documents, id)
                  new == DocAt(documents', id)
              IN  /\ id \in Ids(documents')
                  /\ \A k \in DOMAIN ev : Has(new, k) /\ new[k] = ev[k]
                  /\ \A k \in (DOMAIN old) \ (DOMAIN ev \cup OverrideKeys) :
                         Has(new, k) /\ new[k] = old[k]
                  /\ Len(documents') = Len(documents)
                  /\ \A other \in Ids(documents) \ {id} :
                         /\ other \in Ids(documents')
                         /\ DocAt(documents', other) = DocAt(documents, other)]_vars

\* A push event without last_updated has been merged into a Document that had
\* one, beside another Document.
MergeKeepsFieldsWitness ==
    /\ Len(documents) >= 2
    /\ lastOp.op = "message" /\ lastOp.note \in {"known id", "action pending"}
    /\ \E i \in 1..Len(documents) :
           /\ Has(documents[i], "timestamp") /\ Has(documents[i], "last_updated")
           /\ documents[i]["timestamp"] # documents[i]["last_updated"]

\* C6: a push event applied for a Document whose override is in progress leaves
\* it with override_in_progress false and override_type cleared, whatever the
\* event's status.
ConfirmClearsOverride ==
    [][lastOp'.op = "message" => \A i \in 1..Len(sockets), frame \in {lastOp'.frame} :
          (/\ Delivered(i, frame)
           /\ Get(frame.data, "document_id") \in Ids(documents)
           /\ InProgress(DocAt(documents, Get(frame.data, "document_id")))) =>
              LET new == DocAt(documents', Get(frame.data, "document_id"))
              IN  /\ Get(frame.data, "document_id") \in Ids(documents')
                  /\ Has(new, "override_in_progress") /\ new["override_in_progress"] = FALSE
                  /\ Has(new, "override_type") /\ new["override_type"] = Null
                  /\ new["status"] = frame.data["status"]]_vars

\* A push event has arrived for a Document whose override was in progress.
ConfirmClearsOverrideWitness ==
    /\ lastOp.op = "message" /\ lastOp.note = "action pending"
    /\ \E i \in 1..Len(documents) :
           Has(documents[i], "override_in_progress") /\ ~documents[i]["override_in_progress"]

\* C7: once the backend accepts the dispatch of an action on a document, the
\* Store holds that Document with status "Re-<action>...", override_in_progress
\* true and override_type the action.
AcceptedIsOptimistic ==
    [][\A action \in Actions, docId \in DocIds :
          (DispatchAccept(action, docId) /\ mounted) =>
              /\ docId \in Ids(documents')
              /\ DocAt(documents', docId)["status"] = "Re-" \o action \o "..."
              /\ InProgress(DocAt(documents', docId))
              /\ DocAt(documents', docId)["override_type"] = action]_vars

\* C8: a rejected dispatch leaves the Store as it was and sets only the error
\* message.
RejectLeavesStore ==
    [][\A action \in Actions, docId \in DocIds, failure \in Failures :
          DispatchReject(action, docId, failure) =>
              /\ documents' = documents
              /\ expandedRow' = expandedRow
              /\ loading' = loading
              /\ mounted => error' = ActionError(action, failure)]_vars

\* A dispatch on a Document of the Store has been rejected.
RejectLeavesStoreWitness ==
    /\ lastOp.op = "reject"
    /\ ~IsNull(expandedRow) /\ expandedRow.id \in Ids(documents)
    /\ error # Null

\* The reconnect intervals that are running.
ActiveTimers == {r \in 1..run : reconnectInterval[r] = "active"}

\* C9: in every reachable state at most one reconnect timer is active.
SingleReconnectTimer == Cardinality(ActiveTimers) <= 1

\* C10: an unparsable frame leaves the Store and the history as they were, lets
\* no exception escape the handler and leaves the socket open.
UnparsableFrameDropped ==
    [][lastOp'.op = "message" => \A i \in 1..Len(sockets), frame \in {lastOp'.frame} :
          (~frame.json /\ OnMessage(i, frame)) =>
              /\ documents' = documents
              /\ expandedRow' = expandedRow
              /\ ~escaped'
              /\ sockets' = sockets
              /\ sockets'[i].state = "OPEN"]_vars

\* An unparsable frame has arrived while the Store held Documents.
UnparsableFrameDroppedWitness ==
    /\ lastOp.op = "message" /\ lastOp.note = "unparsable"
    /\ documents # <<>>
    /\ mounted

\* C11: a push event that parses but has no document id is never inserted into
\* or merged into the Store: every Document of the Store has an id.
EveryDocumentHasId ==
    \A i \in 1..Len(documents) : Has(documents[i], "document_id")

\* The History Cache has an entry for document id: the client holds one timeline,
\* that of expandedRow.
Cached(row, id) == ~IsNull(row) /\ row.id = id

\* C12: a push event e for a document that has no History Cache entry when it is
\* delivered, whether the document is in the Store or not, leaves the History
\* Cache with the one-element timeline [e] for that document.
AppendCreatesEntry ==
    [][lastOp'.op = "message" => \A i \in 1..Len(sockets), frame \in {lastOp'.frame} :
          (/\ Delivered(i, frame)
           /\ Has(frame.data, "document_id")
           /\ ~Cached(expandedRow, frame.data["document_id"])) =>
              /\ Cached(expandedRow', frame.data["document_id"])
              /\ expandedRow'.history = <<frame.data>>]_vars

\* C13: expanding a document whose history is cached sends no history request:
\* in expand(X), collapse(X), expand(X) the second expansion sends none and shows
\* the timeline the first one showed.
ExpandUsesCache ==
    [][\A docId \in DocIds :
          (/\ lastOp.op = "rowClick" /\ lastOp.note = "collapse" /\ lastOp.id = docId
           /\ RowClick(docId)) =>
              historyReqs' = historyReqs]_vars

\* C14: a transport failure (the snapshot request failing, or the push channel
\* dropping) never clears Document data: every Document that was in the Store
\* before the failure is in it afterwards.
FailureKeepsDocuments ==
    [][((\E failure \in Failures : SnapshotFail(failure))
          \/ (\E i \in 1..Len(sockets) : OnClose(i, TRUE))) =>
              \A i \in 1..Len(documents) :
                  \E j \in 1..Len(documents') : documents'[j] = documents[i]]_vars

\* C15: after the component is torn down no reconnect timer is active, and none
\* is started again, whatever the state of the connection was at teardown.
NoTimerAfterTeardown == ~mounted => ActiveTimers = {}

\* C16: when an integration status refresh fails, the poller sets a degraded
\* service status and keeps the connected-account count and the mailbox list it
\* had fetched before.
RefreshFailureKeepsAccounts ==
    [][(OAuthFail /\ mounted) =>
          /\ oauthStatus'.ingestor_service_status = "error"
          /\ oauthStatus'.connected_count = oauthStatus.connected_count
          /\ oauthStatus'.mailboxes = oauthStatus.mailboxes]_vars

\* C17: after a push event is applied for a document, the Document's
\* last_updated is the event's own last_updated if it has one, and the event's
\* timestamp otherwise.
LastUpdatedFromEvent ==
    [][lastOp'.op = "message" => \A i \in 1..Len(sockets), frame \in {lastOp'.frame} :
          (Delivered(i, frame) /\ Has(frame.data, "document_id")) =>
              LET ev == frame.data
                  new == DocAt(documents', ev["document_id"])
              IN  /\ ev["document_id"] \in Ids(documents')
                  /\ Has(new, "last_updated")
                  /\ new["last_updated"] = IF Has(ev, "last_updated")
                                           THEN ev["last_updated"] ELSE ev["timestamp"]]_vars

\* C18: Documents are never deleted: an id that is in the Store is in the Store
\* in every later state, under any ordering of the snapshot response, push
\* events, dispatches and row expansions.
NeverDeleted ==
    [][Ids(documents) \subseteq Ids(documents')]_vars

\* The events of a timeline.
EventsOf(history) == {history[i] : i \in 1..Len(history)}

\* C19: history events are never removed: an event that is in the timeline of a
\* document stays in it, also after the document is collapsed, another document
\* is expanded, or a push event for a new document arrives.
HistoryNeverRemoved ==
    [][(mounted /\ ~IsNull(expandedRow) /\ expandedRow.history # <<>>) =>
          /\ Cached(expandedRow', expandedRow.id)
          /\ EventsOf(expandedRow.history) \subseteq EventsOf(expandedRow'.history)]_vars

\* C20: a response that arrives after the context that issued its request was
\* torn down is discarded. Each run of the mount effect issues one GET
\* /documents, so of two snapshot responses that arrive one after the other at
\* most one belongs to the run that is current: when the first was applied, the
\* second changes neither the Store nor what is shown with it.
StaleSnapshotDiscarded ==
    [][(/\ lastOp.op \in {"snapshotOk", "snapshotFail"} /\ lastOp.note = "applied"
        /\ \/ \E data \in Snapshots : SnapshotOk(data)
           \/ \E failure \in Failures : SnapshotFail(failure)) =>
              /\ documents' = documents
              /\ error' = error
              /\ loading' = loading]_vars

\* C21: a history fetch that fails with 404 resolves to an empty timeline for
\* that document and sets no error; the Store is unchanged.
NotFoundIsEmptyTimeline ==
    [][\A docId \in DocIds :
          (HistoryFail(docId, "404") /\ mounted) =>
              /\ expandedRow' = [id |-> docId, history |-> <<>>]
              /\ error' = error
              /\ documents' = documents]_vars

\* The history fetch of a Document of the Store has failed with 404 and no error
\* is shown.
NotFoundIsEmptyTimelineWitness ==
    /\ lastOp.op = "historyFail" /\ lastOp.note = "404"
    /\ mounted
    /\ ~IsNull(expandedRow) /\ expandedRow.id \in Ids(documents)
    /\ expandedRow.history = <<>>
    /\ error = Null

\* C22: every 2 s polling burst started by handleOAuthAction stops when its
\* 2 min timeout fires, after which only the 30 s interval polls; while the
\* component is mounted the 30 s interval stays active during and after the burst.
BurstIsBounded ==
    /\ (checkIntervals > 0) ~> (checkIntervals = 0)
    /\ [][(mounted /\ (HandleOAuthAction \/ BurstTick \/ BurstEnd)) =>
             /\ oauthInterval' = oauthInterval
             /\ oauthInterval[run] = "active"]_vars

\* A burst has polled and then ended, and the 30 s interval is still running.
BurstIsBoundedWitness ==
    /\ lastOp.op = "burstEnd"
    /\ checkIntervals = 0
    /\ oauthReqs > 1
    /\ mounted /\ oauthInterval[run] = "active"

\* C23: after the component is torn down no timer of the status poller is
\* active: neither a 30 s interval nor a 2 s burst interval.
NoPollerTimerAfterTeardown ==
    ~mounted =>
        /\ checkIntervals = 0
        /\ \A r \in 1..run : oauthInterval[r] # "active"

\* The step delivers a push event for document id.
PushFor(id) ==
    /\ lastOp'.op = "message"
    /\ lastOp'.frame.json
    /\ Get(lastOp'.frame.data, "document_id") = id

\* doc is in the optimistic state of its override_type.
Pending(doc) ==
    /\ InProgress(doc)
    /\ doc["status"] = "Re-" \o doc["override_type"] \o "..."

\* C24: a pending optimistic state is resolved only by a push event: a Document
\* with an override in progress keeps override_in_progress true and its
\* "Re-<action>..." status over every step that is not a push event for it.
PendingUntilPush ==
    [][\A docId \in DocIds :
          (/\ mounted
           /\ docId \in Ids(documents)
           /\ Pending(DocAt(documents, docId))
           /\ ~PushFor(docId)) =>
              /\ docId \in Ids(documents')
              /\ Pending(DocAt(documents', docId))]_vars

\* The channel is Closed: no socket is connecting or open.
Closed == \A i \in 1..Len(sockets) : sockets[i].state \notin {"CONNECTING", "OPEN"}

Open == \E i \in 1..Len(sockets) :
            sockets[i].run = run /\ sockets[i].cur /\ sockets[i].state = "OPEN"

\* C26: while the channel is Open no reconnect timer is active and the
\* connection indicator is true; no event of an earlier, superseded connection
\* attempt re-arms the timer or flips the indicator.
OpenMeansNoTimer ==
    (mounted /\ Open) => (wsConnected /\ ActiveTimers = {})

\* C27: if the push event for a document is delivered while a dispatch on that
\* document is still in flight, then once the acceptance has been processed too
\* the Document is not left with override_in_progress true.
AcceptAfterPushNotPending ==
    [][\A action \in Actions, docId \in DocIds :
          (/\ lastOp.op = "message" /\ lastOp.frame.json
           /\ Get(lastOp.frame.data, "document_id") = docId
           /\ mounted
           /\ DispatchAccept(action, docId)) =>
              \A i \in 1..Len(documents') :
                  Get(documents'[i], "document_id") = docId => ~InProgress(documents'[i])]_vars

\* The sockets that are connecting or open.
LiveSockets == {i \in 1..Len(sockets) : sockets[i].state \in {"CONNECTING", "OPEN"}}

\* C28: at most one push-channel socket is connecting or open at any time: a
\* reconnect tick creates no socket while an earlier attempt is connecting or
\* open, and a re-run of the connection setup leaves no earlier socket live.
SingleLiveSocket == Cardinality(LiveSockets) <= 1


\* C29: a push event for document X changes only X's history: when a different
\* document Y is expanded, Y is still the expanded document after the event,
\* with its timeline unchanged, also when X was unknown to the Store.
OtherExpansionUntouched ==
    [][(/\ lastOp'.op = "message"
        /\ mounted
        /\ ~IsNull(expandedRow)) =>
            \A i \in 1..Len(sockets), frame \in {lastOp'.frame} :
                (/\ Delivered(i, frame)
                 /\ expandedRow.id # Get(frame.data, "document_id")) =>
                    expandedRow' = expandedRow]_vars


\* C30: once the response to the most recent expansion request has arrived,
\* the response to an earlier request for another document leaves the
\* expansion as it is; and a history response that arrives directly after a
\* collapse leaves the row collapsed.
LateResponseIgnored ==
    [][\A docId \in DocIds :
          (/\ mounted
           /\ historyReqs[docId] > 0
           /\ historyReqs'[docId] = historyReqs[docId] - 1
           /\ lastOp'.op \in {"historyOk", "historyFail"}
           /\ \/ /\ lastOp.op \in {"historyOk", "historyFail"}
                 /\ lastOp.latest
                 /\ ~IsNull(expandedRow)
                 /\ expandedRow.id # docId
              \/ /\ lastOp.op = "rowClick"
                 /\ lastOp.note = "collapse") =>
              expandedRow' = expandedRow]_vars

====
